---- MODULE Spec2Model ----
(***************************************************************************)
(* A model of package gpt (driusan/gpt): GPTHeader.Verify,                 *)
(* GPTHeader.GetPartitions, GPTPartitionEntry.GetName, GUID.String and     *)
(* GUID.HumanString.                                                       *)
(*                                                                         *)
(* Each function is run by its own specification (SpecVerify,              *)
(* SpecPartitions, SpecName, SpecGUID); the variables of the functions a   *)
(* specification does not run stay at their idle values.                   *)
(***************************************************************************)
EXTENDS Integers, Sequences, FiniteSets, TLC

VARIABLES
    g,                  \* the GPTHeader the method is called on
    verifyErr,          \* Verify: the error returned ("pending" before the call)
    hd,                 \* GetPartitions: the io.ReadSeeker (device contents, behaviour)
    pc,                 \* GetPartitions: position in the function
    offset,             \* GetPartitions: current offset of hd, in bytes
    partitionsLeft,     \* GetPartitions: uint32 local
    partitionsPerBlock, \* GetPartitions: uint32 local
    hdBlock,            \* GetPartitions: the LogicalBlock last read
    partPos,            \* GetPartitions: offset of partReader in hdBlock, in bytes
    i,                  \* GetPartitions: inner loop counter
    partitions,         \* GetPartitions: the slice being built
    ret,                \* GetPartitions: the returned pair (entries, err)
    ioTrace,            \* GetPartitions: the calls made on hd, in order
    e,                  \* GetName: the GPTPartitionEntry (its PartitionName)
    name,               \* GetName: whether it was called, and the runes of the result
    guid,               \* String/HumanString: the GUID
    str,                \* String: the result
    human               \* HumanString: the result

vars == <<g, verifyErr, hd, pc, offset, partitionsLeft, partitionsPerBlock, hdBlock,
          partPos, i, partitions, ret, ioTrace, e, name, guid, str, human>>

verifyVars == <<verifyErr>>
partVars == <<hd, pc, offset, partitionsLeft, partitionsPerBlock, hdBlock, partPos, i,
              partitions, ret, ioTrace>>
nameVars == <<e, name>>
guidVars == <<guid, str, human>>

(***************************************************************************)
(* Program constants.                                                      *)
(***************************************************************************)
LogicalBlockSize == 512

\* binary.Size(GPTPartitionEntry{}): 16 + 16 + 8 + 8 + 8 + 36*2 bytes; also the
\* literal subtracted from SizeOfPartitionEntry.
EntryFixedSize == 128

\* the bytes of a GPTHeader before Padding
HeaderFixedSize == 92

\* len(GPTHeader.Padding)
PaddingLen == LogicalBlockSize - HeaderFixedSize

\* len(GPTPartitionEntry.PartitionName)
NameLen == 36

(***************************************************************************)
(* Bounds of the model.                                                    *)
(***************************************************************************)
\* MaxNumberPartitionEntries ranges over 0 .. MaxEntries
MaxEntries == 5
\* the device holds the blocks with LBA 0 .. DevBlocks - 1
DevBlocks == 4
\* at most this many 128-byte chunks of the device are not all zero
MaxNonZero == 2
\* GetPartitions is followed for at most this many block reads
MaxReads == 3
\* the partition names tried are a free prefix of at most this length, then a fill
MaxPrefix == 3

(***************************************************************************)
(* uint32 arithmetic.  A uint32 is kept as its two 16-bit halves, so that  *)
(* the values near 2^32 that wrap-around produces can be written down.     *)
(***************************************************************************)
Half == 2^16

U32(n) == [hi |-> (n \div Half) % Half, lo |-> n % Half]

\* a - b in uint32 (wraps modulo 2^32)
U32Sub(a, b) ==
    LET lo == a.lo - b.lo
        borrow == IF lo < 0 THEN 1 ELSE 0
    IN  [hi |-> (a.hi - b.hi - borrow) % Half, lo |-> lo % Half]

U32Zero == U32(0)

\* a > n, for a uint32 a and a natural n < 2^16
U32GtNat(a, n) == a.hi > 0 \/ a.lo > n

\* a < b, both uint32
U32Lt(a, b) == a.hi < b.hi \/ (a.hi = b.hi /\ a.lo < b.lo)

\* a >= 2^31: the value does not fit a 32-bit int
U32TopBit(a) == a.hi >= Half \div 2

(***************************************************************************)
(* The header.  Only the fields the modelled functions read are varied;    *)
(* integers are little-endian on disk and are kept here as their values.   *)
(***************************************************************************)
\* the bytes of "EFI PART"
EfiPart == <<69, 70, 73, 32, 80, 65, 82, 84>>

\* The GUID with every field zero (var ZeroGUID); TimeLow is a uint32.
ZeroGUID ==
    [TimeLow |-> U32(0), TimeMid |-> 0, TimeHighAndVersion |-> 0,
     ClockSeqAndReserved |-> 0, ClockSeqLow |-> 0, Node |-> <<0, 0, 0, 0, 0, 0>>]

ZeroPadding == [k \in 1..PaddingLen |-> 0]

BaseHeader ==
    [Signature |-> EfiPart, Revision |-> 1, HeaderSize |-> HeaderFixedSize,
     HeaderCRC32 |-> 0, Reserved |-> 0, MyLBA |-> 1, AltLBA |-> 3,
     FirstUseableLBA |-> 3, LastUseableLBA |-> 3, Disk |-> ZeroGUID,
     PartitionEntryLBA |-> 2,
     MaxNumberPartitionEntries |-> 4, SizeOfPartitionEntry |-> 128,
     PartitionEntryArrayCRC32 |-> 0, Padding |-> ZeroPadding]

(***************************************************************************)
(* The device behind the io.ReadSeeker.  A LogicalBlock is kept as its     *)
(* 512 / 128 = 4 chunks of 128 bytes: every offset GetPartitions reads     *)
(* from or checks is a multiple of 128 (see DecodeEntry).  Chunk 0 is 128  *)
(* zero bytes, chunk 1 is the bytes <<1, 0, ..., 0>>.                      *)
(***************************************************************************)
ChunksPerBlock == LogicalBlockSize \div EntryFixedSize

ZeroBlock == [k \in 1..ChunksPerBlock |-> 0]

\* The LBAs whose contents vary: those from the conventional start of the array.
ArrayLBAs == 2..(DevBlocks - 1)

ChunkPlaces == ArrayLBAs \X (1..ChunksPerBlock)

\* The device whose chunks at the places nz are chunk 1, all others chunk 0.
DeviceData(nz) ==
    [lba \in 0..(DevBlocks - 1) |->
        [k \in 1..ChunksPerBlock |-> IF <<lba, k>> \in nz THEN 1 ELSE 0]]

Devices ==
    {[data |-> DeviceData(nz), endless |-> en] :
        nz \in {s \in SUBSET ChunkPlaces : Cardinality(s) <= MaxNonZero},
        en \in BOOLEAN}

\* io.ReadFull(hd, hdBlock[:]) at byte offset off: the block read, or the error.
\* A device that is not endless ends after block DevBlocks - 1; an endless one
\* (a disk much larger than the table) supplies zero blocks from there on.
DeviceRead(dev, off) ==
    LET lba == off \div LogicalBlockSize
    IN  IF lba < DevBlocks THEN [err |-> "nil", block |-> dev.data[lba]]
        ELSE IF dev.endless THEN [err |-> "nil", block |-> ZeroBlock]
        ELSE [err |-> "EOF", block |-> ZeroBlock]

\* What hd.Seek(target, 0) may return: an error, the target, or another offset.
SeekResults(target) ==
    {[newOffset |-> 0, err |-> TRUE]} \cup
    {[newOffset |-> o, err |-> FALSE] : o \in {target, 0, target - LogicalBlockSize}}

SizesOfEntry == {0, 64, 100, 128, 256, 512, 1024}

\* binary.Read(partReader, binary.LittleEndian, &p) of one 128-byte chunk c:
\* the first four bytes are PartitionType.TimeLow, the rest is zero.
BinaryRead(c) ==
    [PartitionType |-> [TimeLow |-> c, TimeMid |-> 0], StartingLBA |-> 0, EndingLBA |-> 0]

NoBlock == ZeroBlock

NoRet == [entries |-> <<>>, err |-> "pending"]

\* A nil slice and an empty slice are both <<>>.
Failed(msg) == [entries |-> <<>>, err |-> msg]

(***************************************************************************)
(* GPTHeader.GetPartitions                                                 *)
(***************************************************************************)
ErrSeek == "seek error"
ErrNoTable == "Could not find PartitionEntry table."
ErrMisaligned == "Partitions must fit entirely in a single block."
ErrEntryPadding == "Invalid partition entry padding"
ErrEOF == "EOF"
ErrUnexpectedEOF == "unexpected EOF"

\* LogicalBlockSize * g.PartitionEntryLBA
SeekTarget(h) == LogicalBlockSize * h.PartitionEntryLBA

\* (mutant of OffsetMismatch: the reported offset is not compared)
OffsetMismatchIgnored(newOffset, target) == FALSE

\* uint64(newOffset) != LogicalBlockSize*g.PartitionEntryLBA
OffsetMismatch(newOffset, target) == newOffset # target

\* uint64(LogicalBlockSize)%uint64(g.SizeOfPartitionEntry) != 0, for size # 0
Misaligned(size) == LogicalBlockSize % size # 0

\* (mutant of PaddingSize: the subtraction done in a signed int, where
\* paddingSize > 0 is false below 128)
PaddingSizeSigned(size) ==
    IF size < EntryFixedSize THEN U32Zero ELSE U32(size - EntryFixedSize)

\* paddingSize := g.SizeOfPartitionEntry - 128, in uint32
PaddingSize(size) == U32Sub(U32(size), U32(EntryFixedSize))

\* The error of reading n bytes (n a natural, or a uint32 for the padding) from a
\* bytes.Reader with rem bytes left: io.EOF when nothing is left, else
\* io.ErrUnexpectedEOF when fewer than n are.
ShortRead(rem, tooFew) ==
    IF ~tooFew THEN "nil" ELSE IF rem = 0 THEN ErrEOF ELSE ErrUnexpectedEOF

\* The chunks of a block holding the bytes from .. from + n - 1.
ChunksOf(from, n) ==
    {k \in 1..ChunksPerBlock :
        (k - 1) * EntryFixedSize < from + n /\ k * EntryFixedSize > from}

\* line 124-130: the seek, and the check of the offset it reports
Seek ==
    /\ pc = "seek"
    /\ \E r \in SeekResults(SeekTarget(g)) :
        /\ ioTrace' = Append(ioTrace, [op |-> "Seek", to |-> SeekTarget(g),
                                      got |-> r.newOffset, err |-> r.err])
        /\ offset' = IF r.err THEN offset ELSE r.newOffset
        /\ IF r.err
             THEN pc' = "done" /\ ret' = Failed(ErrSeek)
             ELSE IF OffsetMismatch(r.newOffset, SeekTarget(g))
                    THEN pc' = "done" /\ ret' = Failed(ErrNoTable)
                    ELSE pc' = "size" /\ ret' = ret
    /\ UNCHANGED <<g, hd, partitionsLeft, partitionsPerBlock, hdBlock, partPos, i, partitions>>
    /\ UNCHANGED <<verifyVars, nameVars, guidVars>>

\* line 131-139: the locals, and the check that entries fit a block.  The division
\* of line 136 panics (integer divide by zero) when SizeOfPartitionEntry is 0.
EntrySize ==
    /\ pc = "size"
    /\ partitions' = <<>>
    /\ partitionsLeft' = U32(g.MaxNumberPartitionEntries)
    /\ IF g.SizeOfPartitionEntry = 0
         THEN pc' = "panic" /\ UNCHANGED <<partitionsPerBlock, ret>>
         ELSE /\ partitionsPerBlock' = U32(LogicalBlockSize \div g.SizeOfPartitionEntry)
              /\ IF Misaligned(g.SizeOfPartitionEntry)
                   THEN pc' = "done" /\ ret' = Failed(ErrMisaligned)
                   ELSE pc' = "loop" /\ ret' = ret
    /\ UNCHANGED <<g, hd, offset, hdBlock, partPos, i, ioTrace>>
    /\ UNCHANGED <<verifyVars, nameVars, guidVars>>

NumReads == Cardinality({k \in 1..Len(ioTrace) : ioTrace[k].op = "Read"})

\* line 140-154: partitionsLeft > 0, one block is read and the inner loop starts
ReadBlock ==
    /\ pc = "loop"
    /\ partitionsLeft # U32Zero
    /\ NumReads < MaxReads
    /\ LET r == DeviceRead(hd, offset)
       IN  /\ ioTrace' = Append(ioTrace, [op |-> "Read", to |-> offset,
                                         got |-> LogicalBlockSize, err |-> r.err # "nil"])
           /\ IF r.err # "nil"
                THEN /\ pc' = "done" /\ ret' = Failed(r.err)
                     /\ UNCHANGED <<offset, hdBlock, partPos, i>>
                ELSE /\ pc' = "entry" /\ ret' = ret
                     /\ offset' = offset + LogicalBlockSize
                     /\ hdBlock' = r.block
                     /\ partPos' = 0
                     /\ i' = U32Zero
    /\ UNCHANGED <<g, hd, partitionsLeft, partitionsPerBlock, partitions>>
    /\ UNCHANGED <<verifyVars, nameVars, guidVars>>

\* line 154-190: one iteration of the inner loop
DecodeEntry ==
    /\ pc = "entry"
    /\ U32Lt(i, partitionsPerBlock)
    /\ LET rem0 == LogicalBlockSize - partPos
           err0 == ShortRead(rem0, rem0 < EntryFixedSize)
           p == BinaryRead(hdBlock[(partPos \div EntryFixedSize) + 1])
           pos1 == partPos + EntryFixedSize
           rem1 == LogicalBlockSize - pos1
           paddingSize == PaddingSize(g.SizeOfPartitionEntry)
           err1 == ShortRead(rem1, U32GtNat(paddingSize, rem1))
           n == paddingSize.lo
       IN  IF err0 # "nil"
             THEN /\ pc' = "done" /\ ret' = Failed(err0)
                  /\ UNCHANGED <<partPos, i, partitions, partitionsLeft>>
             ELSE IF paddingSize # U32Zero /\ err1 # "nil"
                    \* make([]byte, paddingSize) of 2^31 bytes or more panics where int
                    \* is 32 bits wide (len out of range) and may exhaust memory elsewhere
                    THEN \/ /\ pc' = "done" /\ ret' = Failed(err1)
                            /\ UNCHANGED <<partPos, i, partitions, partitionsLeft>>
                         \/ /\ U32TopBit(paddingSize)
                            /\ pc' = "panic" /\ ret' = ret
                            /\ UNCHANGED <<partPos, i, partitions, partitionsLeft>>
                    ELSE IF paddingSize # U32Zero
                              /\ \E k \in ChunksOf(pos1, n) : hdBlock[k] # 0
                           THEN /\ pc' = "done" /\ ret' = Failed(ErrEntryPadding)
                                /\ UNCHANGED <<partPos, i, partitions, partitionsLeft>>
                           ELSE /\ partitions' = Append(partitions, p)
                                /\ partitionsLeft' = U32Sub(partitionsLeft, U32(1))
                                /\ i' = U32(i.lo + 1)
                                /\ partPos' = IF paddingSize # U32Zero THEN pos1 + n ELSE pos1
                                /\ pc' = pc /\ ret' = ret
    /\ UNCHANGED <<g, hd, offset, partitionsPerBlock, hdBlock, ioTrace>>
    /\ UNCHANGED <<verifyVars, nameVars, guidVars>>

\* line 154, 191: i < partitionsPerBlock is false, back to the outer loop's test
EndBlock ==
    /\ pc = "entry"
    /\ ~U32Lt(i, partitionsPerBlock)
    /\ pc' = "loop"
    /\ UNCHANGED <<g, hd, offset, partitionsLeft, partitionsPerBlock, hdBlock, partPos, i,
                   partitions, ret, ioTrace>>
    /\ UNCHANGED <<verifyVars, nameVars, guidVars>>

\* line 140, 192: partitionsLeft > 0 is false
Return ==
    /\ pc = "loop"
    /\ partitionsLeft = U32Zero
    /\ pc' = "done"
    /\ ret' = [entries |-> partitions, err |-> "nil"]
    /\ UNCHANGED <<g, hd, offset, partitionsLeft, partitionsPerBlock, hdBlock, partPos, i,
                   partitions, ioTrace>>
    /\ UNCHANGED <<verifyVars, nameVars, guidVars>>

IdleVerify == verifyErr = "pending"
IdlePartitions ==
    /\ hd = [data |-> DeviceData({}), endless |-> FALSE]
    /\ pc = "idle" /\ offset = 0
    /\ partitionsLeft = U32Zero /\ partitionsPerBlock = U32Zero
    /\ hdBlock = NoBlock /\ partPos = 0 /\ i = U32Zero
    /\ partitions = <<>> /\ ret = NoRet /\ ioTrace = <<>>
NoName == [called |-> FALSE, s |-> <<>>]
IdleName == e = [PartitionName |-> [k \in 1..NameLen |-> 0]] /\ name = NoName
IdleGUID == guid = ZeroGUID /\ str = "pending" /\ human = "pending"

\* GetPartitions is called on a header with any placement, count and entry size,
\* over any device; the reader is at the end of the header block (main, line 47).
InitPartitions ==
    /\ g \in {[BaseHeader EXCEPT !.PartitionEntryLBA = lba,
                                 !.MaxNumberPartitionEntries = m,
                                 !.SizeOfPartitionEntry = sz] :
                lba \in ArrayLBAs, m \in 0..MaxEntries, sz \in SizesOfEntry}
    /\ hd \in Devices
    /\ pc = "seek"
    /\ offset = 2 * LogicalBlockSize
    /\ partitionsLeft = U32Zero /\ partitionsPerBlock = U32Zero
    /\ hdBlock = NoBlock /\ partPos = 0 /\ i = U32Zero
    /\ partitions = <<>> /\ ret = NoRet /\ ioTrace = <<>>
    /\ IdleVerify /\ IdleName /\ IdleGUID

NextPartitions == Seek \/ EntrySize \/ ReadBlock \/ DecodeEntry \/ EndBlock \/ Return

SpecPartitions == InitPartitions /\ [][NextPartitions]_vars

(***************************************************************************)
(* GPTHeader.Verify                                                        *)
(***************************************************************************)
ErrBadSignature == "Invalid GPT Header (signature)"
ErrReserved == "Invalid GPT Header. Reserved area not zero."
ErrPadding == "Invalid GPT Header. Header not zero padded."
ErrLayout == "TODO: Handle GPT Header or GPT Partition in non-standard location"

\* line 115-118
verifyAlt(h) == "nil"

\* (mutant of Verify: the reserved field is checked before the signature)
VerifyReservedFirst(h) ==
    IF h.Reserved # 0 THEN ErrReserved
    ELSE IF h.Signature # EfiPart THEN ErrBadSignature
    ELSE IF \E k \in 1..PaddingLen : h.Padding[k] # 0 THEN ErrPadding
    ELSE IF h.MyLBA # 1 \/ h.PartitionEntryLBA # 2 THEN ErrLayout
    ELSE verifyAlt(h)

\* line 90-110
Verify(h) ==
    IF h.Signature # EfiPart THEN ErrBadSignature
    ELSE IF h.Reserved # 0 THEN ErrReserved
    ELSE IF \E k \in 1..PaddingLen : h.Padding[k] # 0 THEN ErrPadding
    ELSE IF h.MyLBA # 1 \/ h.PartitionEntryLBA # 2 THEN ErrLayout
    ELSE verifyAlt(h)

\* main, line 54 and 62: header.Verify()
CallVerify ==
    /\ verifyErr = "pending"
    /\ verifyErr' = Verify(g)
    /\ UNCHANGED <<g, partVars, nameVars, guidVars>>

\* The signatures tried: the right one, the zeros of a skipped boot sector, and
\* two that differ from the right one in one byte.
Signatures ==
    {EfiPart, <<0, 0, 0, 0, 0, 0, 0, 0>>, [EfiPart EXCEPT ![8] = 85],
     [EfiPart EXCEPT ![1] = 101]}

\* The paddings tried: all zero, or all zero but for one byte, at any place.
Paddings == {ZeroPadding} \cup {[ZeroPadding EXCEPT ![k] = 255] : k \in 1..PaddingLen}

InitVerify ==
    /\ g \in {[BaseHeader EXCEPT !.Signature = sig, !.Reserved = res, !.Padding = pad,
                                 !.MyLBA = my, !.PartitionEntryLBA = pe,
                                 !.HeaderCRC32 = crc] :
                sig \in Signatures, res \in {0, 1}, pad \in Paddings,
                my \in 0..2, pe \in 1..3, crc \in {0, 1}}
    /\ IdleVerify /\ IdlePartitions /\ IdleName /\ IdleGUID

NextVerify == CallVerify

SpecVerify == InitVerify /\ [][NextVerify]_vars

(***************************************************************************)
(* GPTPartitionEntry.GetName                                               *)
(***************************************************************************)
\* unicode/utf16.Decode: a surrogate pair is one rune, a lone surrogate is U+FFFD.
RECURSIVE Utf16DecodeFrom(_, _)
Utf16DecodeFrom(units, k) ==
    IF k > Len(units) THEN <<>>
    ELSE LET r == units[k]
         IN  IF r < 55296 \/ r >= 57344
               THEN <<r>> \o Utf16DecodeFrom(units, k + 1)
               ELSE IF r < 56320 /\ k + 1 <= Len(units)
                       /\ units[k + 1] >= 56320 /\ units[k + 1] < 57344
                      THEN <<(r - 55296) * 1024 + (units[k + 1] - 56320) + 65536>>
                           \o Utf16DecodeFrom(units, k + 2)
                      ELSE <<65533>> \o Utf16DecodeFrom(units, k + 1)

Utf16Decode(units) == Utf16DecodeFrom(units, 1)

\* line 237-246, from index idx (0-based) on; a Go string of valid runes is kept
\* as the sequence of its runes.
RECURSIVE GetNameFrom(_, _)
GetNameFrom(entry, idx) ==
    IF idx < Len(entry.PartitionName)
      THEN IF entry.PartitionName[idx + 1] = 0
             THEN IF idx = 0 THEN <<>>
                  ELSE Utf16Decode(SubSeq(entry.PartitionName, 1, idx))
             ELSE GetNameFrom(entry, idx + 1)
      ELSE Utf16Decode(entry.PartitionName)

\* (mutant of GetName: the slice decoded runs through the first zero unit,
\* PartitionName[:i+1])
RECURSIVE GetNameThroughZeroFrom(_, _)
GetNameThroughZeroFrom(entry, idx) ==
    IF idx < Len(entry.PartitionName)
      THEN IF entry.PartitionName[idx + 1] = 0
             THEN IF idx = 0 THEN <<>>
                  ELSE Utf16Decode(SubSeq(entry.PartitionName, 1, idx + 1))
             ELSE GetNameThroughZeroFrom(entry, idx + 1)
      ELSE Utf16Decode(entry.PartitionName)

GetNameThroughZero(entry) == GetNameThroughZeroFrom(entry, 0)

\* line 236-247
GetName(entry) == GetNameFrom(entry, 0)

\* main, line 78: p.GetName()
CallGetName ==
    /\ ~name.called
    /\ name' = [called |-> TRUE, s |-> GetName(e)]
    /\ UNCHANGED <<g, e, verifyVars, partVars, guidVars>>

\* The code units tried: 0, 'H', 'I', a high and a low surrogate.
Units == {0, 72, 73, 55357, 56832}

\* The names tried: any units in the first places, then one unit repeated to the end.
Names ==
    {[k \in 1..NameLen |-> IF k <= Len(pre) THEN pre[k] ELSE fill] :
        pre \in UNION {[1..n -> Units] : n \in 0..MaxPrefix}, fill \in {0, 65}}

InitName ==
    /\ g = BaseHeader
    /\ e \in {[PartitionName |-> nm] : nm \in Names}
    /\ name = NoName
    /\ IdleVerify /\ IdlePartitions /\ IdleGUID

NextName == CallGetName

SpecName == InitName /\ [][NextName]_vars

(***************************************************************************)
(* GUID.String and GUID.HumanString                                        *)
(***************************************************************************)
HexDigits == <<"0", "1", "2", "3", "4", "5", "6", "7", "8", "9", "A", "B", "C", "D", "E", "F">>

\* %0.<digits>X of an unsigned n < 16^digits: digits upper-case hex digits
RECURSIVE Hex(_, _)
Hex(n, digits) ==
    IF digits = 0 THEN "" ELSE Hex(n \div 16, digits - 1) \o HexDigits[(n % 16) + 1]

\* %X of a byte array: two upper-case hex digits a byte (the precision 16 of
\* %0.16X admits up to 16 bytes, and Node has 6)
RECURSIVE HexBytes(_)
HexBytes(b) == IF b = <<>> THEN "" ELSE Hex(Head(b), 2) \o HexBytes(Tail(b))

\* line 46-48
String(u) ==
    Hex(u.TimeLow.hi, 4) \o Hex(u.TimeLow.lo, 4) \o "-" \o Hex(u.TimeMid, 4) \o "-"
    \o Hex(u.TimeHighAndVersion, 4) \o "-" \o Hex(u.ClockSeqAndReserved, 2)
    \o Hex(u.ClockSeqLow, 2) \o "-" \o HexBytes(u.Node)

\* line 25-42: the cases of the switch, in order
KnownTypes ==
    << <<"00000000-0000-0000-0000-0000000000000", "Unused">>,
       <<"C12A7328-F81F-11D2-BA4B-00A0C93EC93B", "EFI System Partition">>,
       <<"0657FD6D-A4AB-43C4-84E5-0933C84B4F4F", "Linux Swap">>,
       <<"9D94CE7C-1CA5-11DC-8817-01301BB8A9F5", "DragonFly UFS1">>,
       <<"C91818F9-8025-47AF-89D2-F030D7000C2C", "Plan 9">>,
       <<"824CC7A0-36A8-11E3-890A-952519AD3F61", "OpenBSD">>,
       <<"0FC63DAF-8483-4772-8E79-3D69D8477DE4", "Linux">> >>

\* line 24-43
HumanString(u) ==
    LET s == String(u)
        hits == {k \in 1..Len(KnownTypes) : KnownTypes[k][1] = s}
    IN  IF hits = {} THEN s
        ELSE KnownTypes[CHOOSE k \in hits : \A j \in hits : k <= j][2]

CallString ==
    /\ str = "pending"
    /\ str' = String(guid)
    /\ UNCHANGED <<g, guid, human, verifyVars, partVars, nameVars>>

\* main, line 79 and 81: p.PartitionType.HumanString()
CallHumanString ==
    /\ human = "pending"
    /\ human' = HumanString(guid)
    /\ UNCHANGED <<g, guid, str, verifyVars, partVars, nameVars>>

\* The GUIDs tried: every field either zero or as in the EFI System Partition type
\* C12A7328-F81F-11D2-BA4B-00A0C93EC93B; the node also with one low byte set.
GUIDs ==
    [TimeLow : {U32(0), [hi |-> 49450, lo |-> 29480]},
     TimeMid : {0, 63519},
     TimeHighAndVersion : {0, 4562},
     ClockSeqAndReserved : {0, 186},
     ClockSeqLow : {0, 75},
     Node : {<<0, 0, 0, 0, 0, 0>>, <<0, 160, 201, 62, 201, 59>>, <<0, 0, 0, 0, 0, 10>>}]

InitGUID ==
    /\ g = BaseHeader
    /\ guid \in GUIDs
    /\ str = "pending" /\ human = "pending"
    /\ IdleVerify /\ IdlePartitions /\ IdleName

NextGUID == CallString \/ CallHumanString

SpecGUID == InitGUID /\ [][NextGUID]_vars

(***************************************************************************)
(* CRC-32 (IEEE 802.3, as in hash/crc32.ChecksumIEEE), which the header's  *)
(* HeaderCRC32 field is defined by.  Verify does not compute it; it is     *)
(* here as the reference the stored field is compared to.                  *)
(***************************************************************************)
RECURSIVE Xor16(_, _)
Xor16(a, b) ==
    IF a = 0 THEN b ELSE IF b = 0 THEN a
    ELSE ((a + b) % 2) + 2 * Xor16(a \div 2, b \div 2)

Xor32(x, y) == [hi |-> Xor16(x.hi, y.hi), lo |-> Xor16(x.lo, y.lo)]

Shr1(x) == [hi |-> x.hi \div 2, lo |-> (x.lo \div 2) + (x.hi % 2) * (Half \div 2)]

\* 0xEDB88320, the reflected polynomial
CrcPoly == [hi |-> 60856, lo |-> 33568]

AllOnes == [hi |-> Half - 1, lo |-> Half - 1]

RECURSIVE CrcShift(_, _)
CrcShift(x, times) ==
    IF times = 0 THEN x
    ELSE CrcShift(IF x.lo % 2 = 1 THEN Xor32(Shr1(x), CrcPoly) ELSE Shr1(x), times - 1)

\* (the test x.lo < 0 is never true: it makes TLC evaluate x at every step)
RECURSIVE CrcUpdate(_, _, _)
CrcUpdate(x, bytes, k) ==
    IF x.lo < 0 \/ k > Len(bytes) THEN x
    ELSE CrcUpdate(CrcShift(Xor32(x, [hi |-> 0, lo |-> bytes[k]]), 8), bytes, k + 1)

\* The CRC-32 of a sequence of bytes, as a uint32.
Crc32(bytes) == Xor32(CrcUpdate(AllOnes, bytes, 1), AllOnes)

\* The little-endian bytes of n < 2^31 in a field of width bytes
RECURSIVE LE(_, _)
LE(n, width) == IF width = 0 THEN <<>> ELSE <<n % 256>> \o LE(n \div 256, width - 1)

GUIDBytes(u) ==
    LE(u.TimeLow.lo, 2) \o LE(u.TimeLow.hi, 2) \o LE(u.TimeMid, 2)
    \o LE(u.TimeHighAndVersion, 2) \o <<u.ClockSeqAndReserved, u.ClockSeqLow>> \o u.Node

\* The first HeaderSize = 92 bytes of the header as on disk, HeaderCRC32 zeroed.
HeaderBytesForCRC(h) ==
    h.Signature \o LE(h.Revision, 4) \o LE(h.HeaderSize, 4) \o LE(0, 4) \o LE(h.Reserved, 4)
    \o LE(h.MyLBA, 8) \o LE(h.AltLBA, 8) \o LE(h.FirstUseableLBA, 8)
    \o LE(h.LastUseableLBA, 8) \o GUIDBytes(h.Disk) \o LE(h.PartitionEntryLBA, 8)
    \o LE(h.MaxNumberPartitionEntries, 4) \o LE(h.SizeOfPartitionEntry, 4)
    \o LE(h.PartitionEntryArrayCRC32, 4)

(***************************************************************************)
(* Properties of Verify (checked under SpecVerify)                         *)
(***************************************************************************)
PaddingNonZero(h) == \E k \in 1..PaddingLen : h.Padding[k] # 0

\* C1: Verify checks signature, reserved field, padding and layout in this order
\* and returns the error of the first check that fails: a wrong signature gives
\* the bad-signature error whatever the other fields hold; else a non-zero
\* Reserved gives the reserved-field error; else any non-zero padding byte gives
\* the padding error; else MyLBA # 1 or PartitionEntryLBA # 2 gives the
\* unsupported-layout error.
C1_VerifyOrder ==
    verifyErr # "pending" =>
        /\ g.Signature # EfiPart => verifyErr = ErrBadSignature
        /\ g.Signature = EfiPart /\ g.Reserved # 0 => verifyErr = ErrReserved
        /\ g.Signature = EfiPart /\ g.Reserved = 0 /\ PaddingNonZero(g)
              => verifyErr = ErrPadding
        /\ g.Signature = EfiPart /\ g.Reserved = 0 /\ ~PaddingNonZero(g)
              /\ (g.MyLBA # 1 \/ g.PartitionEntryLBA # 2)
              => verifyErr = ErrLayout

\* C1 witness: a single non-zero byte, the last of the padding, of a header whose
\* layout is unsupported too, was reported as the padding error.
C1_Witness ==
    /\ verifyErr = ErrPadding
    /\ g.Padding[PaddingLen] # 0
    /\ \A k \in 1..(PaddingLen - 1) : g.Padding[k] = 0
    /\ g.MyLBA # 1

\* C2: Verify detects checksum corruption: it returns success only when the
\* stored HeaderCRC32 is the CRC-32 of the header bytes with that field zeroed.
C2_ChecksumVerified ==
    verifyErr = "nil" => U32(g.HeaderCRC32) = Crc32(HeaderBytesForCRC(g))

(***************************************************************************)
(* Properties of GetPartitions (checked under SpecPartitions)              *)
(***************************************************************************)
Called == pc # "idle"

PerBlock(h) == LogicalBlockSize \div h.SizeOfPartitionEntry

CeilDiv(a, b) == (a + b - 1) \div b

\* 512 is an exact multiple of the entry size
SizeDivides(h) ==
    h.SizeOfPartitionEntry # 0 /\ LogicalBlockSize % h.SizeOfPartitionEntry = 0

\* ... and an entry holds the 128 fixed bytes
SizeFits(h) == SizeDivides(h) /\ h.SizeOfPartitionEntry >= EntryFixedSize

BlocksNeeded(h) == CeilDiv(h.MaxNumberPartitionEntries, PerBlock(h))

\* The device holds every block of the declared array.
EnoughBlocks(h, dev) == dev.endless \/ h.PartitionEntryLBA + BlocksNeeded(h) <= DevBlocks

\* The first call on hd was the seek to the array, and it reported the target.
SeekSucceeded ==
    /\ ioTrace # <<>>
    /\ ioTrace[1].op = "Seek" /\ ~ioTrace[1].err /\ ioTrace[1].got = ioTrace[1].to

ChunkAt(dev, lba, k) == IF lba < DevBlocks THEN dev.data[lba][k] ELSE 0

ChunksPerEntry(h) == h.SizeOfPartitionEntry \div EntryFixedSize

\* The chunk holding the fixed fields of slot idx (from 0) of the on-disk array.
SlotChunk(h, dev, idx) ==
    ChunkAt(dev, h.PartitionEntryLBA + (idx \div PerBlock(h)),
            (idx % PerBlock(h)) * ChunksPerEntry(h) + 1)

\* The bytes of slot idx after its 128 fixed bytes are all zero.
SlotPaddingZero(h, dev, idx) ==
    \A j \in 1..(ChunksPerEntry(h) - 1) :
        ChunkAt(dev, h.PartitionEntryLBA + (idx \div PerBlock(h)),
                (idx % PerBlock(h)) * ChunksPerEntry(h) + 1 + j) = 0

Slots(h) == 0..(h.MaxNumberPartitionEntries - 1)

\* C3: with an entry size that divides 512 and is at least 128, on a device that
\* holds the array with all entry padding zero, GetPartitions returns exactly
\* MaxNumberPartitionEntries entries, the i-th the decoding of the i-th slot, for
\* every MaxNumberPartitionEntries.
C3_AllSlotsInOrder ==
    (/\ pc = "done" /\ SeekSucceeded /\ SizeFits(g) /\ EnoughBlocks(g, hd)
     /\ \A idx \in Slots(g) : SlotPaddingZero(g, hd, idx))
    => /\ ret.err = "nil"
       /\ Len(ret.entries) = g.MaxNumberPartitionEntries
       /\ \A idx \in Slots(g) : ret.entries[idx + 1] = BinaryRead(SlotChunk(g, hd, idx))

\* C4: GetPartitions reads whole 512-byte blocks only, and issues exactly
\* ceil(MaxNumberPartitionEntries / (512 / SizeOfPartitionEntry)) reads: never
\* more, and that many when it returns the entries.
C4_ReadsExactlyCeil ==
    (Called /\ SizeDivides(g)) =>
        /\ \A k \in 1..Len(ioTrace) :
              ioTrace[k].op = "Read" =>
                 ioTrace[k].to % LogicalBlockSize = 0 /\ ioTrace[k].got = LogicalBlockSize
        /\ NumReads <= BlocksNeeded(g)
        /\ pc = "done" /\ ret.err = "nil" => NumReads = BlocksNeeded(g)

\* C5: whenever 512 is not an exact multiple of SizeOfPartitionEntry (0 and
\* values above 512 included), GetPartitions returns the misaligned-entry-size
\* error as an error value, and no entries.
C5_MisalignedIsError ==
    (SeekSucceeded /\ ~SizeDivides(g) /\ pc \notin {"seek", "size"})
    => pc = "done" /\ ret = Failed(ErrMisaligned)

\* C6: if any padding byte of any of the first MaxNumberPartitionEntries slots
\* is non-zero, GetPartitions fails with the entry-padding error and returns no
\* entries; if all of them are zero that error is never raised.
C6_PaddingErrorIffNonZero ==
    (Called /\ SizeFits(g)) =>
        /\ (/\ pc = "done" /\ SeekSucceeded /\ EnoughBlocks(g, hd)
            /\ \E idx \in Slots(g) : ~SlotPaddingZero(g, hd, idx))
           => ret = Failed(ErrEntryPadding)
        /\ (\A idx \in Slots(g) : SlotPaddingZero(g, hd, idx))
           => ret.err # ErrEntryPadding

\* C7: the first call on the reader is the seek to PartitionEntryLBA * 512 and no
\* read comes before it; if the seek fails or reports another offset,
\* GetPartitions returns an error with no block read and no entries.
C7_SeekFirst ==
    Called =>
        /\ ioTrace # <<>> =>
              ioTrace[1].op = "Seek"
              /\ ioTrace[1].to = g.PartitionEntryLBA * LogicalBlockSize
        /\ NumReads > 0 => SeekSucceeded
        /\ (ioTrace # <<>> /\ ~SeekSucceeded)
           => /\ pc = "done" /\ ret.err # "nil" /\ ret.entries = <<>>
              /\ Len(ioTrace) = 1

\* C7 witness: a seek that reported another offset without an error ended the
\* call with the error, on a header that declares entries to read.
C7_Witness ==
    /\ pc = "done"
    /\ Len(ioTrace) = 1 /\ ~ioTrace[1].err /\ ioTrace[1].got # ioTrace[1].to
    /\ ret = Failed(ErrNoTable)
    /\ g.MaxNumberPartitionEntries > 0 /\ SizeFits(g)

\* C10: with SizeOfPartitionEntry below 128 no entry is ever appended, so no
\* return holds entries: the padding size wraps in uint32 and the read of the
\* padding fails; success is returned only for a header that declares no entries.
C10_NoEntriesBelowFixedSize ==
    (Called /\ g.SizeOfPartitionEntry < EntryFixedSize) =>
        /\ partitions = <<>>
        /\ ret.entries = <<>>
        /\ pc = "done" /\ ret.err = "nil" => g.MaxNumberPartitionEntries = 0

\* C10 witness: an entry size of 64 passed the alignment check, a block with a
\* non-zero first chunk was read, and the call failed on the padding read.
C10_Witness ==
    /\ pc = "done" /\ g.SizeOfPartitionEntry = 64 /\ g.MaxNumberPartitionEntries > 0
    /\ NumReads = 1 /\ hdBlock[1] # 0
    /\ ret = Failed(ErrUnexpectedEOF)

(***************************************************************************)
(* Properties of GetName (checked under SpecName)                          *)
(***************************************************************************)
\* The place of the first zero unit, NameLen + 1 if there is none.
FirstZero(nm) ==
    IF \E k \in 1..NameLen : nm[k] = 0
      THEN CHOOSE k \in 1..NameLen : nm[k] = 0 /\ \A j \in 1..(k - 1) : nm[j] # 0
      ELSE NameLen + 1

IsSurrogate(u) == u >= 55296 /\ u < 57344

\* C8: GetName returns the decoding of exactly the units before the first zero
\* unit: the empty string when unit 0 is zero, all 36 units when none is zero,
\* never a unit at or after the first zero; [0x48, 0x49, 0, ...] gives "HI".
C8_NameUpToFirstZero ==
    name.called =>
        LET nm == e.PartitionName
            before == SubSeq(nm, 1, FirstZero(nm) - 1)
        IN  /\ name.s = Utf16Decode(before)
            /\ nm[1] = 0 => name.s = <<>>
            /\ (\A k \in 1..Len(before) : ~IsSurrogate(before[k])) => name.s = before
            /\ (FirstZero(nm) = NameLen + 1 /\ \A k \in 1..NameLen : ~IsSurrogate(nm[k]))
                  => Len(name.s) = NameLen
            /\ SubSeq(nm, 1, 3) = <<72, 73, 0>> => name.s = <<72, 73>>

\* C8 witness: "HI", a zero, then non-zero units to the end, gave "HI".
C8_Witness ==
    /\ name.called
    /\ SubSeq(e.PartitionName, 1, 3) = <<72, 73, 0>>
    /\ \A k \in 4..NameLen : e.PartitionName[k] # 0
    /\ name.s = <<72, 73>>

(***************************************************************************)
(* Properties of String and HumanString (checked under SpecGUID)           *)
(***************************************************************************)
ZeroGUIDString == "00000000-0000-0000-0000-000000000000"

\* C9: String() of the all-zero GUID is the 36-character zero string and
\* HumanString() of it is "Unused"; a GUID whose string is not in the table of
\* known types has HumanString() = String().
C9_ZeroGuidUnused ==
    /\ (str # "pending" /\ guid = ZeroGUID) => str = ZeroGUIDString /\ Len(str) = 36
    /\ (human # "pending" /\ guid = ZeroGUID) => human = "Unused"
    /\ (human # "pending" /\ \A k \in 1..Len(KnownTypes) : KnownTypes[k][1] # String(guid))
          => human = String(guid)

====
